---- MODULE Spec2Model ----
(***************************************************************************)
(* Model of the command-execution and tracing core of glue_helpers.py:     *)
(* default_subtrace_level, disable_subcommand_tracing(), run(), issue(),   *)
(* delete_file() and the soft assertion() helper.                          *)
(*                                                                         *)
(* A command is a sequence of tokens.  Each token is one character, apart  *)
(* from the stderr-redirection markers, which are kept as single tokens.   *)
(* The process is single threaded: calls nest on a stack of frames and a   *)
(* new top-level call starts only when the previous one has ended.         *)
(***************************************************************************)
EXTENDS Integers, Sequences, FiniteSets, TLC

VARIABLES
    debug_level,               \* tpo.debugging_level() of this process
    ALLOW_SUBCOMMAND_TRACING,  \* the configuration flag read at import
    default_subtrace_level,    \* the module global
    disabled,                  \* history: disable_subcommand_tracing() was called
    environ,                   \* os.environ's DEBUG_LEVEL (None when unset)
    log_exists,                \* whether the file TEMP_LOG_FILE exists
    stack,                     \* call stack of run()/issue() frames, outermost first
    trace                      \* what the current top-level call did so far

vars == <<debug_level, ALLOW_SUBCOMMAND_TRACING, default_subtrace_level,
          disabled, environ, log_exists, stack, trace>>

----------------------------------------------------------------------------
(* Bounds of the model *)

MaxLen == 2
MaxDebugLevel == 4

----------------------------------------------------------------------------
(* Values of the program *)

None == "None"
NoneLevel == -1
ERROR == 1
USUAL == 3
DETAILED == 4
DefaultTraceLevel == 4
AssertionSubtraceLevel == 8

Min(a, b) == IF a < b THEN a ELSE b

MinOf(S) == CHOOSE m \in S : \A n \in S : m <= n

Digits == <<"0", "1", "2", "3", "4", "5", "6", "7", "8", "9">>

\* str() of a level
Str(n) == Digits[n + 1]

\* truth value of an optional string
Truthy(s) == s # None /\ s # ""

debugging == debug_level >= ERROR

detailed_debugging == debug_level >= DETAILED

----------------------------------------------------------------------------
(* Command text *)

Alphabet == {"{", "}", "&"}

STDERR_MARKERS == {"2>", "2|&1"}

\* " 2>| " + TEMP_LOG_FILE
LOG_REDIRECT == "2>|log"

SeqsUpTo(n) == UNION {[1..k -> Alphabet] : k \in 1..n}

ExtraTemplates ==
    { <<"x">>, <<"{", "x", "}">>, <<"{", "x", "}", "&">>, <<"x", "2>">> }

Templates == SeqsUpTo(MaxLen) \cup ExtraTemplates

EmptyNamespace == [n \in {} |-> <<>>]

Namespaces == { [n \in {"x"} |-> <<"&">>], [n \in {"x"} |-> <<"x">>] }

NamespacesFor(command) ==
    IF \E i \in 1..Len(command) : command[i] = "{" THEN Namespaces
    ELSE {EmptyNamespace}

\* the source line fetched by assertion(): "tail --lines=+{l} '{f}' | head -1"
TailCommand == <<"t", "{", "l", "}", "{", "f", "}", "h">>

TailNamespace == [n \in {"l", "f"} |-> IF n = "l" THEN <<"n">> ELSE <<"p">>]

\* a pattern that matches on an opening brace alone
SearchOpenBrace(command) ==
    \E i \in 1..Len(command) : command[i] = "{"

\* re.search("{.*}", command): '.' does not match a newline
Search(command) ==
    \E i \in 1..Len(command), j \in 1..Len(command) :
        /\ i < j
        /\ command[i] = "{"
        /\ command[j] = "}"
        /\ \A k \in (i + 1)..(j - 1) : command[k] # "\n"

\* command.endswith("&")
EndsWithAmp(command) == Len(command) > 0 /\ command[Len(command)] = "&"

HasStderrMarker(command) ==
    \E i \in 1..Len(command) : command[i] \in STDERR_MARKERS

Fail == [ok |-> FALSE, text |-> <<>>]

RECURSIVE FormatFrom(_, _, _)
FormatFrom(s, ns, i) ==
    IF i > Len(s) THEN [ok |-> TRUE, text |-> <<>>]
    ELSE IF s[i] = "{" THEN
        LET closes == {j \in (i + 1)..Len(s) : s[j] = "}"} IN
        IF closes = {} THEN Fail
        ELSE LET j == MinOf(closes)
                 name == SubSeq(s, i + 1, j - 1)
                 rest == FormatFrom(s, ns, j + 1)
             IN  IF Len(name) = 1 /\ name[1] \in DOMAIN ns /\ rest.ok
                 THEN [ok |-> TRUE, text |-> ns[name[1]] \o rest.text]
                 ELSE Fail
    ELSE IF s[i] = "}" THEN Fail
    ELSE LET rest == FormatFrom(s, ns, i + 1)
         IN  IF rest.ok THEN [ok |-> TRUE, text |-> <<s[i]>> \o rest.text]
             ELSE Fail

\* tpo.format(command, ignore_exception=False, **namespace): every {name} is
\* replaced by its binding; an unbound name or a lone brace is an error
Format(command, namespace) == FormatFrom(command, namespace, 1)

----------------------------------------------------------------------------
(* Frames and the record of a call *)

Frame(fn, cid, pc, command, trace_level, trace_isint, subtrace_level, just_issue, namespace, by_assertion) ==
    [ fn |-> fn, cid |-> cid, pc |-> pc, command |-> command,
      trace_level |-> trace_level, trace_isint |-> trace_isint,
      subtrace_level |-> subtrace_level, explicit |-> subtrace_level # NoneLevel,
      just_issue |-> just_issue, namespace |-> namespace,
      by_assertion |-> by_assertion,
      debug_level_env |-> None, command_line |-> <<>>, wait |-> TRUE,
      result |-> None, log_file |-> FALSE, env_entry |-> environ, exc |-> None ]

Event(kind, cid, level, text) ==
    [ kind |-> kind, cid |-> cid, level |-> level, text |-> text, env |-> environ ]

NewCid(tr) == 1 + Cardinality({i \in 1..Len(tr) : tr[i].kind = "call"})

Top == stack[Len(stack)]

Idle == stack = <<>>

\* the outermost call has returned or raised
Ended == Len(stack) = 1 /\ stack[1].pc \in {"done", "raised"}

Running(fn, pc) == stack # <<>> /\ Top.fn = fn /\ Top.pc = pc

SetTop(f) == [stack EXCEPT ![Len(stack)] = f]

\* the top frame returns: the outermost frame stays as the record of the call
Return(f) ==
    IF Len(stack) = 1 THEN <<[f EXCEPT !.pc = "done"]>>
    ELSE SubSeq(stack, 1, Len(stack) - 1)

\* no frame of run(), issue() or assertion() catches: the exception unwinds the stack
Raise(f, exc) ==
    IF Len(stack) = 1 THEN <<[f EXCEPT !.pc = "raised", !.exc = exc]>>
    ELSE <<[stack[1] EXCEPT !.pc = "raised", !.exc = exc]>>

\* assertion(condition): a failed condition fetches its source line with run()
AssertionRun(tr) ==
    Frame("run", NewCid(tr), "assert_int", TailCommand, DefaultTraceLevel, TRUE,
          AssertionSubtraceLevel, FALSE, TailNamespace, TRUE)

----------------------------------------------------------------------------
(* Module initialisation *)

DebugLevels == {0, USUAL, MaxDebugLevel}

\* the usual tier taken without the min()
InitialSubtraceLevelNoMin(allow, level) ==
    IF allow THEN level ELSE USUAL

InitialSubtraceLevel(allow, level) ==
    IF allow THEN level ELSE Min(USUAL, level)

Init ==
    /\ debug_level \in DebugLevels
    /\ ALLOW_SUBCOMMAND_TRACING \in BOOLEAN
    /\ default_subtrace_level =
           InitialSubtraceLevel(ALLOW_SUBCOMMAND_TRACING, debug_level)
    /\ disabled = FALSE
    /\ environ \in {None, "", Str(debug_level)}
    /\ log_exists = FALSE
    /\ stack = <<>>
    /\ trace = <<>>

----------------------------------------------------------------------------
(* Operations of the caller *)

DisabledLevel == 0

\* the assignment without the 'global' statement: the module global is untouched
disable_without_global ==
    /\ Idle
    /\ disabled' = TRUE
    /\ UNCHANGED <<debug_level, ALLOW_SUBCOMMAND_TRACING, default_subtrace_level,
                   environ, log_exists, stack, trace>>

disable_subcommand_tracing ==
    /\ Idle
    /\ default_subtrace_level' = DisabledLevel
    /\ disabled' = TRUE
    /\ UNCHANGED <<debug_level, ALLOW_SUBCOMMAND_TRACING, environ, log_exists,
                   stack, trace>>

TraceArgs == { [val |-> 4, isint |-> TRUE], [val |-> 8, isint |-> TRUE],
               [val |-> 4, isint |-> FALSE] }

SubtraceArgs == {NoneLevel, 8}

CallRun ==
    /\ Idle
    /\ \E command \in Templates, t \in TraceArgs, s \in SubtraceArgs,
          just_issue \in BOOLEAN :
         \E namespace \in NamespacesFor(command) :
            /\ stack' = <<Frame("run", 1, "assert_int", command, t.val, t.isint,
                                s, just_issue, namespace, FALSE)>>
            /\ trace' = <<Event("call", 1, t.val, command)>>
    /\ UNCHANGED <<debug_level, ALLOW_SUBCOMMAND_TRACING, default_subtrace_level,
                   disabled, environ, log_exists>>

CallIssue ==
    /\ Idle
    /\ \E command \in Templates, t \in TraceArgs, s \in SubtraceArgs :
         \E namespace \in NamespacesFor(command) :
            /\ stack' = <<Frame("issue", 0, "stage", command, t.val, t.isint,
                                s, FALSE, namespace, FALSE)>>
            /\ trace' = <<>>
    /\ UNCHANGED <<debug_level, ALLOW_SUBCOMMAND_TRACING, default_subtrace_level,
                   disabled, environ, log_exists>>

\* the caller takes the result (or the exception) of its call and goes on
Complete ==
    /\ Ended
    /\ stack' = <<>>
    /\ trace' = <<>>
    /\ UNCHANGED <<debug_level, ALLOW_SUBCOMMAND_TRACING, default_subtrace_level,
                   disabled, environ, log_exists>>

----------------------------------------------------------------------------
(* run() *)

\* assertion(isinstance(trace_level, int))
RunAssertInt ==
    /\ Running("run", "assert_int")
    /\ IF Top.trace_isint
       THEN /\ stack' = SetTop([Top EXCEPT !.pc = "stage"])
            /\ trace' = trace
       ELSE /\ stack' = Append(SetTop([Top EXCEPT !.pc = "stage"]), AssertionRun(trace))
            /\ trace' = Append(trace, Event("call", NewCid(trace), DefaultTraceLevel,
                                            TailCommand))
    /\ UNCHANGED <<debug_level, ALLOW_SUBCOMMAND_TRACING, default_subtrace_level,
                   disabled, environ, log_exists>>

\* the effective subcommand level of a call
EffectiveLevel(subtrace_level, default) ==
    IF subtrace_level = NoneLevel THEN default ELSE subtrace_level

\* an override only for a more detailed subcommand level
NeedsOverrideWhenGreater(subtrace_level, trace_level) == subtrace_level > trace_level

\* whether run() puts the level into the environment
NeedsOverride(subtrace_level, trace_level) == subtrace_level # trace_level

\* the entry trace, the effective level and the DEBUG_LEVEL override
RunStage ==
    /\ Running("run", "stage")
    /\ LET f == Top
           level == EffectiveLevel(f.subtrace_level, default_subtrace_level)
           entered == Append(trace, Event("debug", f.cid, f.trace_level + 2, f.command))
       IN  IF NeedsOverride(level, f.trace_level)
           THEN /\ environ' = Str(level)
                /\ stack' = SetTop([f EXCEPT !.pc = "resolve",
                                             !.subtrace_level = level,
                                             !.debug_level_env = environ])
                /\ trace' = Append(entered, Event("stage", f.cid, level, <<>>))
           ELSE /\ environ' = environ
                /\ stack' = SetTop([f EXCEPT !.pc = "resolve",
                                             !.subtrace_level = level])
                /\ trace' = entered
    /\ UNCHANGED <<debug_level, ALLOW_SUBCOMMAND_TRACING, default_subtrace_level,
                   disabled, log_exists>>

\* debug_print("issuing: ...", trace_level)
IssuingLevel(trace_level) == trace_level

\* the expansion of the template and the 'issuing' trace
RunResolve ==
    /\ Running("run", "resolve")
    /\ LET f == Top IN
       IF Search(f.command)
       THEN LET r == Format(f.command, f.namespace)
                called == Append(trace, Event("format", f.cid, 0, f.command))
            IN  IF r.ok
                THEN /\ stack' = SetTop([f EXCEPT !.pc = "assert_mode",
                                                  !.command_line = r.text])
                     /\ trace' = called \o
                                 << Event("resolved", f.cid, 0, r.text),
                                    Event("issuing", f.cid, IssuingLevel(f.trace_level), r.text) >>
                ELSE /\ stack' = Raise(f, "TemplateResolutionError")
                     /\ trace' = called
       ELSE /\ stack' = SetTop([f EXCEPT !.pc = "assert_mode",
                                         !.command_line = f.command])
            /\ trace' = trace \o
                        << Event("resolved", f.cid, 0, f.command),
                           Event("issuing", f.cid, IssuingLevel(f.trace_level), f.command) >>
    /\ UNCHANGED <<debug_level, ALLOW_SUBCOMMAND_TRACING, default_subtrace_level,
                   disabled, environ, log_exists>>

\* wait = not command.endswith("&")
Wait(command, command_line) == ~EndsWithAmp(command)

\* the condition of assertion(wait or not just_issue)
ModeCondition(wait, just_issue) == wait \/ ~just_issue

RunAssertMode ==
    /\ Running("run", "assert_mode")
    /\ LET f == Top
           wait == Wait(f.command, f.command_line)
           next == SetTop([f EXCEPT !.pc = "exec", !.wait = wait])
       IN  IF ModeCondition(wait, f.just_issue)
           THEN /\ stack' = next
                /\ trace' = trace
           ELSE /\ stack' = Append(next, AssertionRun(trace))
                /\ trace' = Append(trace, Event("call", NewCid(trace),
                                                DefaultTraceLevel, TailCommand))
    /\ UNCHANGED <<debug_level, ALLOW_SUBCOMMAND_TRACING, default_subtrace_level,
                   disabled, environ, log_exists>>

\* result = getoutput(command_line) if wait else str(os.system(command_line))
ShellKind(wait) == IF wait THEN "getoutput" ELSE "system"

RunExec ==
    /\ Running("run", "exec")
    /\ LET f == Top
           redirects == \E i \in 1..Len(f.command_line) : f.command_line[i] = LOG_REDIRECT
           invoked == Append(trace, Event(ShellKind(f.wait), f.cid, 0, f.command_line))
       IN  \E ok \in BOOLEAN :
              /\ trace' = invoked
              /\ log_exists' = (log_exists \/ redirects)
              /\ IF ok
                 THEN stack' = SetTop([f EXCEPT !.pc = "restore",
                                                !.result = IF f.wait THEN "output"
                                                           ELSE "status"])
                 ELSE stack' = Raise(f, "ShellError")
    /\ UNCHANGED <<debug_level, ALLOW_SUBCOMMAND_TRACING, default_subtrace_level,
                   disabled, environ>>

\* the result traced at the level of the 'issuing' trace
ResultLevelSame(trace_level) == trace_level

\* debug_print("run(_) => ...", (trace_level + 1))
ResultLevel(trace_level) == trace_level + 1

\* whether run() puts the saved value back
MustRestore(debug_level_env) == Truthy(debug_level_env)

\* the restoration of DEBUG_LEVEL, the result trace and the return
RunRestore ==
    /\ Running("run", "restore")
    /\ LET f == Top
           restored == IF MustRestore(f.debug_level_env)
                       THEN Append(trace, Event("restore", f.cid, 0, <<>>))
                       ELSE trace
       IN  /\ environ' = IF MustRestore(f.debug_level_env) THEN f.debug_level_env
                         ELSE environ
           /\ trace' = Append(restored, [Event("result", f.cid, ResultLevel(f.trace_level), <<>>)
                                            EXCEPT !.env = environ'])
           /\ stack' = Return(f)
    /\ UNCHANGED <<debug_level, ALLOW_SUBCOMMAND_TRACING, default_subtrace_level,
                   disabled, log_exists>>

----------------------------------------------------------------------------
(* issue() and delete_file() *)

\* whether issue() redirects stderr to the temporary log file
StagesLog(command) == debugging /\ ~HasStderrMarker(command)

\* the entry trace and the stderr redirection
IssueStage ==
    /\ Running("issue", "stage")
    /\ LET f == Top
           staged == StagesLog(f.command)
       IN  /\ stack' = SetTop([f EXCEPT !.pc = "resolve",
                                        !.log_file = staged,
                                        !.command = IF staged
                                                    THEN Append(f.command, LOG_REDIRECT)
                                                    ELSE f.command])
           /\ trace' = Append(trace, Event("debug", f.cid, f.trace_level + 1, f.command))
    /\ UNCHANGED <<debug_level, ALLOW_SUBCOMMAND_TRACING, default_subtrace_level,
                   disabled, environ, log_exists>>

\* the expansion of the template and the call of run(..., just_issue=True)
IssueResolve ==
    /\ Running("issue", "resolve")
    /\ LET f == Top
           r == IF Search(f.command) THEN Format(f.command, f.namespace)
                ELSE [ok |-> TRUE, text |-> f.command]
       IN  IF r.ok
           THEN /\ stack' = Append(SetTop([f EXCEPT !.pc = "finish",
                                                    !.command_line = r.text]),
                                   Frame("run", NewCid(trace), "assert_int", r.text,
                                         f.trace_level, f.trace_isint, f.subtrace_level,
                                         TRUE, EmptyNamespace, FALSE))
                /\ trace' = Append(trace, Event("call", NewCid(trace), f.trace_level,
                                                r.text))
           ELSE /\ stack' = Raise(f, "TemplateResolutionError")
                /\ trace' = trace
    /\ UNCHANGED <<debug_level, ALLOW_SUBCOMMAND_TRACING, default_subtrace_level,
                   disabled, environ, log_exists>>

\* whether issue() removes the temporary log file
DeletesLog(log_file) == log_file /\ ~detailed_debugging

\* the traces after run() and, in delete_file(), assertion(os.path.exists(filename))
IssueFinish ==
    /\ Running("issue", "finish")
    /\ LET f == Top
           traced == Append(trace, Event("debug", f.cid, 2 + f.trace_level, <<>>))
       IN  IF DeletesLog(f.log_file)
           THEN IF log_exists
                THEN /\ stack' = SetTop([f EXCEPT !.pc = "delete"])
                     /\ trace' = traced
                ELSE /\ stack' = Append(SetTop([f EXCEPT !.pc = "delete"]),
                                        AssertionRun(traced))
                     /\ trace' = Append(traced, Event("call", NewCid(traced),
                                                      DefaultTraceLevel, TailCommand))
           ELSE /\ stack' = Return(f)
                /\ trace' = traced
    /\ UNCHANGED <<debug_level, ALLOW_SUBCOMMAND_TRACING, default_subtrace_level,
                   disabled, environ, log_exists>>

\* os.remove(filename) in delete_file(): an OSError is caught and traced
IssueDelete ==
    /\ Running("issue", "delete")
    /\ \E removed \in BOOLEAN :
          /\ log_exists' = (log_exists /\ ~removed)
          /\ trace' = Append(trace, Event("delete", Top.cid, 0, <<>>))
          /\ stack' = Return(Top)
    /\ UNCHANGED <<debug_level, ALLOW_SUBCOMMAND_TRACING, default_subtrace_level,
                   disabled, environ>>

----------------------------------------------------------------------------

Next ==
    \/ disable_subcommand_tracing
    \/ CallRun
    \/ CallIssue
    \/ Complete
    \/ RunAssertInt
    \/ RunStage
    \/ RunResolve
    \/ RunAssertMode
    \/ RunExec
    \/ RunRestore
    \/ IssueStage
    \/ IssueResolve
    \/ IssueFinish
    \/ IssueDelete

Spec == Init /\ [][Next]_vars

----------------------------------------------------------------------------
(* Vocabulary of the properties *)

ShellKinds == {"getoutput", "system"}

Indexes == 1..Len(trace)

Frames == {stack[i] : i \in 1..Len(stack)}

RunFrames == {f \in Frames : f.fn = "run"}

\* the effective subcommand level of the call of frame f
Effective(f) == IF f.explicit THEN f.subtrace_level ELSE default_subtrace_level

\* the frame has replaced a missing subtrace_level by the default
Defaulted(f) == ~f.explicit /\ f.subtrace_level # NoneLevel

\* the command and the trace level a call of run() was made with
CallsMade == {trace[i] : i \in {k \in Indexes : trace[k].kind = "call"}}

\* a '{' with a '}' somewhere after it
HasBraceGroup(s) ==
    \E i \in 1..Len(s) : s[i] = "{" /\ \E j \in (i + 1)..Len(s) : s[j] = "}"

LastIsAmp(s) == s # <<>> /\ s[Len(s)] = "&"

----------------------------------------------------------------------------
(* Properties *)

\* C1: after a call of run() whose effective subtrace level differs from
\* trace_level, whether it returned or raised, DEBUG_LEVEL is what it was
\* immediately before the call (unset again if it was unset).
C1_SignalRestoredAfterRun ==
    (Ended /\ stack[1].fn = "run" /\ Effective(stack[1]) # stack[1].trace_level)
        => environ = stack[1].env_entry

\* C2: an issue() call that staged the temporary stderr log reaches the cleanup
\* on every exit path: when it ends, returning or raising, the deletion of the
\* log has been attempted unless detailed debugging is on, and the call that
\* attempted it returned normally.
C2_LogCleanupOnEveryExit ==
    (Ended /\ stack[1].fn = "issue" /\ stack[1].log_file /\ ~detailed_debugging)
        => /\ \E i \in Indexes : trace[i].kind = "delete"
           /\ stack[1].pc = "done"

\* C3: run() on a command ending in '&' without the fire-and-forget opt-in
\* never launches the command and ends with FireAndForgetMismatchError; with the
\* opt-in it launches the command detached and returns the launch status.
C3_BackgroundNeedsOptIn ==
    \A f \in RunFrames :
        LastIsAmp(f.command) =>
            IF f.just_issue
            THEN /\ \A i \in Indexes :
                        (trace[i].cid = f.cid /\ trace[i].kind \in ShellKinds)
                            => trace[i].kind = "system"
                 /\ f.pc = "done" => f.result = "status"
            ELSE /\ \A i \in Indexes :
                        trace[i].cid = f.cid => trace[i].kind \notin ShellKinds
                 /\ f.pc \in {"done", "raised"}
                        => (f.pc = "raised" /\ f.exc = "FireAndForgetMismatchError")

C5_VerbatimWithoutGroup ==
    \A c \in CallsMade :
        ~HasBraceGroup(c.text) =>
            \A i \in Indexes :
                trace[i].cid = c.cid =>
                    /\ trace[i].kind # "format"
                    /\ trace[i].kind \in ShellKinds => trace[i].text = c.text

C5_Witness ==
    /\ Ended
    /\ stack[1].fn = "run"
    /\ stack[1].pc = "done"
    /\ stack[1].command = <<"}", "{">>
    /\ \E i \in Indexes : trace[i].kind \in ShellKinds /\ trace[i].text = <<"}", "{">>

\* C6: in a call of run() the 'issuing' trace, showing the resolved command
\* line, is made at trace_level before the shell is invoked, and the result trace
\* is made at trace_level + 1 after the shell invocation; the first is never
\* at a finer tier than the second.
C6_TraceOrder ==
    \A c \in CallsMade :
        /\ \A k \in Indexes :
               (trace[k].cid = c.cid /\ trace[k].kind \in ShellKinds) =>
                   \E i \in 1..(k - 1) :
                       /\ trace[i].cid = c.cid
                       /\ trace[i].kind = "issuing"
                       /\ trace[i].level = c.level
                       /\ trace[i].text = trace[k].text
        /\ \A r \in Indexes :
               (trace[r].cid = c.cid /\ trace[r].kind = "result") =>
                   /\ trace[r].level = c.level + 1
                   /\ \E k \in 1..(r - 1) :
                          trace[k].cid = c.cid /\ trace[k].kind \in ShellKinds
                   /\ \A i \in Indexes :
                          (trace[i].cid = c.cid /\ trace[i].kind = "issuing")
                              => (i < r /\ trace[i].level <= trace[r].level)
        /\ \A f \in RunFrames :
               (f.cid = c.cid /\ f.pc = "done") =>
                   \E r \in Indexes : trace[r].cid = c.cid /\ trace[r].kind = "result"

C6_Witness ==
    /\ Ended
    /\ stack[1].fn = "run"
    /\ stack[1].pc = "done"
    /\ stack[1].trace_level = 8
    /\ \E k \in Indexes, r \in Indexes :
          /\ k < r
          /\ trace[k].cid = 1 /\ trace[k].kind \in ShellKinds
          /\ trace[r].cid = 1 /\ trace[r].kind = "result" /\ trace[r].level = 9

\* the place of a step in the order the code takes them
StepRank(kind) ==
    CASE kind = "stage" -> 1
      [] kind \in {"format", "resolved"} -> 2
      [] kind \in ShellKinds -> 3
      [] kind = "restore" -> 4
      [] OTHER -> 0

C8_ModeFromResolvedLine ==
    /\ \A i \in Indexes :
           trace[i].kind \in ShellKinds =>
               (trace[i].kind = "system" <=> LastIsAmp(trace[i].text))
    /\ \A f \in RunFrames :
           f.pc = "done" =>
               f.result = IF LastIsAmp(f.command_line) THEN "status" ELSE "output"

\* C9: when the shell command of a call of run() is invoked, DEBUG_LEVEL is the
\* effective subcommand level if that level differs from trace_level; if the
\* two are equal, DEBUG_LEVEL is then, and when the call ends, what it was when
\* the call began.
C9_SignalDuringShell ==
    \A f \in RunFrames :
        /\ \A i \in Indexes :
               (trace[i].cid = f.cid /\ trace[i].kind \in ShellKinds) =>
                   trace[i].env = IF Effective(f) # f.trace_level
                                  THEN Str(Effective(f))
                                  ELSE f.env_entry
        /\ (Effective(f) = f.trace_level /\ f.pc \in {"done", "raised"})
               => environ = f.env_entry

\* C10: the process-wide subcommand level never exceeds the current debugging
\* level: until disable_subcommand_tracing() is called it is the current level
\* when ALLOW_SUBCOMMAND_TRACING is set and the lesser of USUAL and the current
\* level otherwise, and afterwards it is 0.
C10_SubtraceAtMostCurrent ==
    /\ default_subtrace_level <= debug_level
    /\ ~disabled =>
           IF ALLOW_SUBCOMMAND_TRACING
           THEN default_subtrace_level = debug_level
           ELSE /\ default_subtrace_level <= USUAL
                /\ default_subtrace_level \in {USUAL, debug_level}
    /\ disabled => default_subtrace_level = 0

C10_Witness ==
    /\ disabled
    /\ ~ALLOW_SUBCOMMAND_TRACING
    /\ debug_level > USUAL
    /\ default_subtrace_level < USUAL
    /\ Ended

\* the calls of run() made by assertion()
AssertionCalls == {c \in CallsMade : c.text = TailCommand}

\* C11: when a soft assertion fails inside run(), the run() that assertion()
\* makes does not fail an assertion of its own (at most one such call is in
\* progress), DEBUG_LEVEL after it returns is what it was when it began, and
\* the command of the outer call is executed under the override the outer call
\* staged, or under the signal the outer call began with if it staged none.
C11_NestedAssertionRunRestores ==
    /\ Cardinality({i \in 1..Len(stack) : stack[i].by_assertion}) <= 1
    /\ \A i \in 1..Len(stack) : stack[i].by_assertion => i = Len(stack)
    /\ \A c \in AssertionCalls :
           \A r \in Indexes :
               (trace[r].cid = c.cid /\ trace[r].kind = "result")
                   => trace[r].env = c.env
    /\ \A f \in RunFrames :
           (~f.by_assertion /\ AssertionCalls # {}) =>
               \A i \in Indexes :
                   (trace[i].cid = f.cid /\ trace[i].kind \in ShellKinds) =>
                       trace[i].env = IF Effective(f) # f.trace_level
                                      THEN Str(Effective(f))
                                      ELSE f.env_entry

====
